---- MODULE Spec2Model ----
(***************************************************************************)
(* Model of the multi-platform unified AI gateway of                       *)
(* courses/L3_Advanced/02_ai_workflow_integration/                         *)
(* 04_multi_platform_unified_api.py: EnterpriseDecisionEngine,             *)
(* EnterpriseUnifiedAIAPI, the three cache managers, EnterpriseRateLimiter,*)
(* EnterpriseQoSManager and EnterpriseSessionManager; and of two objects   *)
(* used on their own: UnifiedModelManager of config/model_adapters.py and  *)
(* ModelMetrics of monitoring/metrics_simple.py.                           *)
(*                                                                         *)
(* Reading of the source.  The file's indentation and a few tokens are     *)
(* damaged, so the model follows the statements' evident control and data  *)
(* flow.  Expressions that could not be evaluated on any input are read as *)
(* the operation they evidently stand for: the misspelt local of l.638/640 *)
(* (ava_data / avg_data), the keyword clash of l.855-861 (metadata given   *)
(* twice), the comparison of put()'s None with 0 at l.1264, the item       *)
(* assignment on the cached response at l.793, the character class of     *)
(* l.842 that is not closed (read as ["'<>]) and the unknown keyword of    *)
(* l.947, and the dict method of l.1305 that does not exist (read as the   *)
(* selection of the two keys it names).  Behaviour that depends on the     *)
(* input is modelled as Python                                             *)
(* defines it (the unbound local of l.688 for a language other than "zh",  *)
(* the recursion limit of the interpreter, dict insertion order, ...).     *)
(*                                                                         *)
(* A query is a sequence of words; its text is their concatenation and a   *)
(* keyword occurs in it when it is one of the words.  Scores are integers  *)
(* in units of 10^-4 (Scale).  Hash digests (sha256, hash()) are taken to  *)
(* be collision free: a key is the text that is hashed.                    *)
(***************************************************************************)
EXTENDS Integers, Sequences, FiniteSets, TLC

\* ------------------------------------------------------------------------
\* Bounds of the model
\* ------------------------------------------------------------------------

\* coroutines of process_unified_query that may be in progress at once
NumProcs == 2
\* requests received in one run
MaxRequests == 2
\* clock advances in one run
MaxTicks == 1
\* frames of the dispatch chain the interpreter allows (sys.getrecursionlimit)
RecursionLimit == 5
\* calls of update_performance_metrics, and those of them for a second platform
MaxSamples == 102
OtherSamples == 2
\* calls of is_request_allowed on its own, and steps of the clock between them
MaxLimiterCalls == 5
MaxLimiterTicks == 3
\* calls made to one UnifiedModelManager: its construction and the switches
MaxManagerCalls == 4
\* calls made to the session manager, and steps of the clock between them
MaxSessionCalls == 5
MaxSessionTicks == 4
\* calls made to the metrics collector
MaxMetricsCalls == 5

\* ------------------------------------------------------------------------
\* Enumerations and program constants
\* ------------------------------------------------------------------------

None == "None"

\* class AIPlatform, in declaration order
AIPlatform == <<"dify", "ragflow", "n8n", "langflow", "flowise", "custom", "unified">>

CRITICAL == "critical"
HIGH == "high"
NORMAL == "normal"
BATCH == "batch"
QueryPriority == {CRITICAL, HIGH, NORMAL, BATCH}

ResponseFormat == {"json", "stream", "markdown", "xml"}

\* EnterpriseAPIConfig.concurrent_request_limit, the default
concurrent_request_limit_default == 1000
\* platform_limits[...]["window_seconds"]
window_seconds == 60
\* ttl_seconds passed by process_unified_query
cache_ttl_seconds == 3600
\* TTLCache(maxsize=5000, ttl=3600)
cachetools_ttl == 3600
\* asyncio.Queue(maxsize=...) of each priority
queue_maxsize_critical == 100
queue_maxsize_high == 200
queue_maxsize_normal == 500
queue_maxsize_batch == 1000
\* usage_metrics_history keeps the latest 100 records
history_limit == 100
\* EnterpriseSessionManager(timeout_minutes=30)
timeout_minutes == 30

Scale == 10000

Range(s) == {s[i] : i \in DOMAIN s}

Min(a, b) == IF a <= b THEN a ELSE b

\* dict.get(key, default) on a record
Get(d, key, default) == IF key \in DOMAIN d THEN d[key] ELSE default

\* ------------------------------------------------------------------------
\* EnterpriseDecisionEngine
\* ------------------------------------------------------------------------

\* _initialize_quality_matrix: capability scores in hundredths, and the
\* platforms in the dict's insertion order
platform_quality_matrix ==
    [dify |-> [chat_conversation |-> 85, knowledge_base |-> 88, document_qa |-> 82,
               workflow_automation |-> 75, multi_language |-> 90, enterprise_grade |-> 78],
     ragflow |-> [enterprise_document_qa |-> 92, hybrid_retrieval |-> 89,
                  chunk_reranking |-> 87, aoi_description |-> 85,
                  enterprise_security |-> 93, scalability |-> 90],
     n8n |-> [workflow_automation |-> 95, multi_step_processing |-> 90,
              webhook_integration |-> 88, business_task_layout |-> 86,
              notification_systems |-> 85, enterprise_integration |-> 82]]

platform_order == <<"dify", "ragflow", "n8n">>

\* str.lower() on a word: only the Latin words of the model change
Lower(w) == IF w = "PDF" THEN "pdf" ELSE w

\* the keyword table of _analyze_query_intent, in dict order; the Chinese
\* keywords are written in pinyin
intent_keywords ==
    << <<"knowledge_based", {"zhishi", "xinxi", "shishenme", "dingyi", "zhidao",
                             "jieshi", "shuoming", "jiyuzhishiku"}>>,
       <<"document_search", {"wendang", "ziliao", "wenjian", "PDF", "lunwen",
                             "baogao", "shouce", "congwendang"}>>,
       <<"workflow_automation", {"zidong", "liucheng", "chuli", "chufa", "anpai",
                                 "dingshi", "pici", "gongzuoliu"}>>,
       <<"simple_conversation", {"wenti", "liaotian", "duihua", "qingwen", "ruhe", "zenme"}>>,
       <<"data_analysis", {"fenxi", "shuju", "baogao", "tongji", "tubiao",
                           "zhibiao", "qushi"}>> >>

\* the keywords found in one word: the word itself, and a keyword that is
\* part of a longer keyword
KeywordsIn(w) ==
    CASE w = "jiyuzhishiku" -> {"jiyuzhishiku", "zhishi"}
      [] w = "congwendang"  -> {"congwendang", "wendang"}
      [] OTHER              -> {w}

\* sum(1 for keyword in keywords if keyword in query_lower)
KeywordScore(query, keywords) ==
    Cardinality({k \in keywords : \E i \in DOMAIN query : k \in KeywordsIn(Lower(query[i]))})

RECURSIVE IntentScan(_, _, _, _)
IntentScan(query, i, best_match, max_score) ==
    IF i > Len(intent_keywords) THEN best_match
    ELSE LET score == KeywordScore(query, intent_keywords[i][2])
         IN  IF score > max_score
             THEN IntentScan(query, i + 1, intent_keywords[i][1], score)
             ELSE IntentScan(query, i + 1, best_match, max_score)

_analyze_query_intent(query) == IntentScan(query, 1, "general_conversation", 0)

\* _determine_performance_requirements: latency in ms, availability in 10^-3
_determine_performance_requirements(priority) ==
    CASE priority = CRITICAL -> [latency_sla_ms |-> 1000, availability_requirement |-> 999]
      [] priority = HIGH     -> [latency_sla_ms |-> 2000, availability_requirement |-> 995]
      [] priority = NORMAL   -> [latency_sla_ms |-> 5000, availability_requirement |-> 990]
      [] priority = BATCH    -> [latency_sla_ms |-> 30000, availability_requirement |-> 950]
      [] OTHER               -> [latency_sla_ms |-> 5000, availability_requirement |-> 990]

intent_capability_map ==
    [knowledge_based |-> <<"knowledge_base", "document_qa">>,
     document_search |-> <<"enterprise_document_qa", "hybrid_retrieval">>,
     workflow_automation |-> <<"workflow_automation", "multi_step_processing">>,
     simple_conversation |-> <<"chat_conversation", "workflow_automation">>,
     data_analysis |-> <<"business_task_layout", "workflow_automation">>]

RECURSIVE SumCaps(_, _, _)
SumCaps(caps, wanted, i) ==
    IF i > Len(wanted) THEN 0
    ELSE Get(caps, wanted[i], 0) + SumCaps(caps, wanted, i + 1)

\* _get_intent_match_score, in Scale
_get_intent_match_score(platform, intent) ==
    LET platform_capabilities == Get(platform_quality_matrix, platform, [x \in {} |-> 0])
        capabilities_for_intent == Get(intent_capability_map, intent, <<>>)
    IN  IF capabilities_for_intent = <<>> THEN 5000
        ELSE (SumCaps(platform_capabilities, capabilities_for_intent, 1) * 100)
                 \div Len(capabilities_for_intent)

\* _get_performance_match_score, in Scale; stats is recent_performance_stats
_get_performance_match_score(stats, platform, requirements) ==
    LET avg_data == Get(stats, platform, [x \in {} |-> 0])
        avg_ms == Get(avg_data, "avg_response_time_ms", 1000)
        latency_match == Min(Scale, (requirements.latency_sla_ms * Scale)
                                        \div (IF avg_ms = 0 THEN 1000 ELSE avg_ms))
        availability_match == (Get(avg_data, "uptime_percentage", 9800) * 1000)
                                  \div requirements.availability_requirement
    IN  (latency_match + availability_match) \div 2

\* _get_recent_performance_score, in Scale
_get_recent_performance_score(stats, platform) ==
    LET recent_metrics == Get(stats, platform, [x \in {} |-> 0])
        uptime_score == Get(recent_metrics, "uptime_percentage", 9500)
        response_score == Get(recent_metrics, "avg_response_time_ms", 1000) * 10
    IN  uptime_score - response_score \div 10

chinese_support_score == [deepseek |-> 90, zhipu |-> 95, moonshot |-> 88, n8n |-> 70]
enterprise_score == [ragflow |-> 95, dify |-> 82, n8n |-> 75]
api_quality == [ragflow |-> 88, dify |-> 85, n8n |-> 90]

\* _get_advanced_features_score raises UnboundLocalError at its last line when
\* the language is not "zh": chinese_support_score is bound in that branch only
AdvancedFeaturesRaises(query_request) == query_request.language # "zh"

\* _get_advanced_features_score, in Scale (when it does not raise)
_get_advanced_features_score(platform, query_request) ==
    LET zh == IF query_request.language = "zh"
              THEN Get(chinese_support_score, platform, 60) ELSE 0
        ent == IF query_request.priority \in {HIGH, CRITICAL}
               THEN Get(enterprise_score, platform, 50) ELSE 0
        api == Get(api_quality, platform, 75)
    IN  ((zh + ent + api) * 100) \div Cardinality(DOMAIN chinese_support_score)

\* _calculate_platform_score: ten times the weighted sum 0.4/0.3/0.2/0.1, in Scale
_calculate_platform_score(stats, platform, query_intent, performance_requirements, query_request) ==
    _get_intent_match_score(platform, query_intent) * 4
    + _get_performance_match_score(stats, platform, performance_requirements) * 3
    + _get_recent_performance_score(stats, platform) * 2
    + _get_advanced_features_score(platform, query_request)

\* max(platform_scores, key=platform_scores.get): the first key, in insertion
\* order, whose score is the greatest
RECURSIVE MaxKey(_, _, _, _)
MaxKey(keys, scores, i, best) ==
    IF i > Len(keys) THEN best
    ELSE IF scores[keys[i]] > scores[best]
         THEN MaxKey(keys, scores, i + 1, keys[i])
         ELSE MaxKey(keys, scores, i + 1, best)

\* select_best_platform: the platform chosen, or the exception that leaves it
select_best_platform(stats, query_request) ==
    LET query_intent == _analyze_query_intent(query_request.query)
        performance_requirements == _determine_performance_requirements(query_request.priority)
        platform_scores == [platform \in Range(platform_order) |->
            _calculate_platform_score(stats, platform, query_intent,
                                      performance_requirements, query_request)]
    IN  IF AdvancedFeaturesRaises(query_request) THEN "UnboundLocalError"
        ELSE MaxKey(platform_order, platform_scores, 2, platform_order[1])

\* ------------------------------------------------------------------------
\* Requests and adapter results
\* ------------------------------------------------------------------------

\* UnifiedQueryRequest: the requests of the model are one request and the
\* requests that differ from it in one field
BaseRequest ==
    [query |-> <<"chazhao", "wendang">>, platform_preference |-> "n8n", context |-> <<>>,
     priority |-> NORMAL, response_format |-> "json", language |-> "zh",
     metadata |-> [session_id |-> "s1"]]

Requests ==
    {BaseRequest,
     [BaseRequest EXCEPT !.metadata = [session_id |-> "s2"]],
     [BaseRequest EXCEPT !.priority = CRITICAL, !.context = <<"c1">>],
     [BaseRequest EXCEPT !.language = "en"],
     [BaseRequest EXCEPT !.query = <<>>]}

RECURSIVE Join(_, _)
\* sep.join(parts)
Join(parts, sep) ==
    IF parts = <<>> THEN ""
    ELSE IF Len(parts) = 1 THEN parts[1]
         ELSE parts[1] \o sep \o Join(Tail(parts), sep)

\* the text of a query: its words, concatenated
QueryText(query) == Join(query, "")

\* words that str.strip() removes, and words with a character of ["'<>]
BlankWords == {" ", "  "}
RiskWords == {"<script>", "'", "\"", ">"}

\* _validate_query_request: <<is_valid, validation_error>>
_validate_query_request(query_request) ==
    IF QueryText(query_request.query) = ""
       \/ \A i \in DOMAIN query_request.query : query_request.query[i] \in BlankWords
    THEN <<FALSE, "Query empty">>
    ELSE IF Len(QueryText(query_request.query)) > 2000
    THEN <<FALSE, "Query too long">>
    ELSE IF query_request.priority = CRITICAL
            /\ \E i \in DOMAIN query_request.query : query_request.query[i] \in RiskWords
    THEN <<FALSE, "risk characters">>
    ELSE <<TRUE, "">>

\* _initialize_platform_adapters: the platforms that have an adapter
platform_adapters == {"dify", "ragflow", "n8n"}

Answers == {"a1", "a2"}

\* What execute_query of a platform's adapter may return: a result (the n8n
\* adapter reports no confidence) or an error result.
AdapterResults(platform) ==
    {IF platform = "n8n"
     THEN [platform |-> platform, answer |-> a, processing_time |-> 300]
     ELSE [platform |-> platform, answer |-> a, confidence |-> 75, processing_time |-> 300]
        : a \in Answers}
    \cup {[error |-> "failed", platform |-> platform]}

AllAdapterResults == UNION {AdapterResults(platform) : platform \in platform_adapters}

\* ------------------------------------------------------------------------
\* Cache managers
\* ------------------------------------------------------------------------

CacheKinds == {"redis", "cachetools", "simple"}

\* json.dumps(request.context, sort_keys=True) if request.context else ""
ContextJson(context) ==
    IF context = <<>> THEN ""
    ELSE "[" \o Join([i \in DOMAIN context |-> "\"" \o context[i] \o "\""], ", ") \o "]"

\* RedisCacheManager._generate_cache_key
RedisCacheKey(request) ==
    "ai_unified_response:" \o
    Join(<<QueryText(request.query), request.language, request.response_format,
           request.priority, ContextJson(request.context)>>, "|")

\* CacheToolsManager._generate_cache_key
CacheToolsCacheKey(request) ==
    <<QueryText(request.query), request.language, request.response_format>>

\* SimpleCacheManager._generate_cache_key: the text of the whole request
SimpleCacheKey(request) == [request EXCEPT !.query = QueryText(request.query)]

_generate_cache_key(kind, request) ==
    CASE kind = "redis"      -> <<"redis", RedisCacheKey(request)>>
      [] kind = "cachetools" -> <<"cachetools", CacheToolsCacheKey(request)>>
      [] kind = "simple"     -> <<"simple", SimpleCacheKey(request)>>

\* whether the store of a manager still holds an entry at time t: Redis keeps
\* it for the ttl of setex, TTLCache for its own ttl, the dict for ever
EntryLive(kind, entry, t) ==
    CASE kind = "redis"      -> t < entry.stored_at + entry.ttl_seconds
      [] kind = "cachetools" -> t < entry.stored_at + cachetools_ttl
      [] kind = "simple"     -> TRUE

NoResponse == [none |-> TRUE]

\* get_cached_response: the cached response, or NoResponse for None
get_cached_response(kind, store, request, t) ==
    LET cache_key == _generate_cache_key(kind, request)
    IN  IF cache_key \in DOMAIN store /\ EntryLive(kind, store[cache_key], t)
        THEN store[cache_key].value
        ELSE NoResponse

\* what RedisCacheManager keeps of a response: the fields of cacheable_data
RedisRoundTrip(response) ==
    [f \in DOMAIN response \ {"request_id", "cache_hit"} |-> response[f]]

\* cache_response: the store after the write
cache_response(kind, store, request, response, ttl_seconds, t) ==
    LET cache_key == _generate_cache_key(kind, request)
        entry == [value |-> IF kind = "redis" THEN RedisRoundTrip(response) ELSE response,
                  stored_at |-> t, ttl_seconds |-> ttl_seconds]
    IN  [k \in DOMAIN store \cup {cache_key} |->
            IF k = cache_key THEN entry ELSE store[k]]

\* ------------------------------------------------------------------------
\* EnterpriseRateLimiter and EnterpriseQoSManager
\* ------------------------------------------------------------------------

\* EnterpriseRateLimiter.__init__
InitialPlatformLimits(max_limit, t) ==
    [platform \in Range(AIPlatform) |->
        [current_requests |-> 0, last_reset |-> t, max_limit |-> max_limit,
         window_seconds |-> window_seconds]]

\* is_request_allowed with > for >= in the test of the limit
is_request_allowed_above(limits, platform, t) ==
    LET info == limits[platform]
        reset == IF t >= info.last_reset + info.window_seconds
                 THEN [info EXCEPT !.current_requests = 0, !.last_reset = t]
                 ELSE info
    IN  IF reset.current_requests > reset.max_limit
        THEN <<FALSE, [limits EXCEPT ![platform] = reset]>>
        ELSE <<TRUE, [limits EXCEPT ![platform] =
                         [reset EXCEPT !.current_requests = @ + 1]]>>

\* is_request_allowed: <<allowed, platform_limits afterwards>>
is_request_allowed(limits, platform, t) ==
    LET info == limits[platform]
        reset == IF t >= info.last_reset + info.window_seconds
                 THEN [info EXCEPT !.current_requests = 0, !.last_reset = t]
                 ELSE info
    IN  IF reset.current_requests >= reset.max_limit
        THEN <<FALSE, [limits EXCEPT ![platform] = reset]>>
        ELSE <<TRUE, [limits EXCEPT ![platform] =
                         [reset EXCEPT !.current_requests = @ + 1]]>>

\* EnterpriseQoSManager.__init__: maxsize of each priority queue
queue_maxsize ==
    [p \in QueryPriority |->
        CASE p = CRITICAL -> queue_maxsize_critical
          [] p = HIGH     -> queue_maxsize_high
          [] p = NORMAL   -> queue_maxsize_normal
          [] p = BATCH    -> queue_maxsize_batch]

\* ------------------------------------------------------------------------
\* Dispatch: _execute_platform_query and _failover_to_alternative_platform
\* ------------------------------------------------------------------------

\* _get_fallback_platform_order
_get_fallback_platform_order(failed_platform) ==
    CASE failed_platform = "dify"     -> <<"ragflow", "n8n", "langflow">>
      [] failed_platform = "ragflow"  -> <<"dify", "n8n", "langflow">>
      [] failed_platform = "n8n"      -> <<"dify", "ragflow", "langflow">>
      [] failed_platform = "langflow" -> <<"dify", "ragflow", "n8n">>
      [] failed_platform = "flowise"  -> <<"dify", "ragflow", "langflow">>
      [] OTHER                        -> <<"dify", "ragflow", "n8n">>

\* The frames of the dispatch chain of one request: a call of
\* _execute_platform_query(platform), or a call of
\* _failover_to_alternative_platform(failed platform) that has taken i
\* candidates of its fallback order.
ExecuteFrame(platform) == [fn |-> "execute", platform |-> platform, i |-> 0]
FailoverFrame(failed_platform, i) == [fn |-> "failover", platform |-> failed_platform, i |-> i]

Pop(stack) == SubSeq(stack, 1, Len(stack) - 1)
Top(stack) == stack[Len(stack)]

\* The chain runs without suspension until an adapter is awaited (the stack
\* ends with an execute frame, raised is None) or an exception reaches
\* process_unified_query (the stack is empty).
RECURSIVE Raise(_, _, _)
RECURSIVE FailoverLoop(_, _)

\* a call of _execute_platform_query(platform) made below the frames of stack
CallExecute(stack, attempts, platform) ==
    IF Len(stack) >= RecursionLimit
    THEN Raise(stack, attempts, "RecursionError")
    ELSE IF platform \notin platform_adapters
    THEN Raise(stack, attempts, "400:unsupported platform")
    ELSE [stack |-> Append(stack, ExecuteFrame(platform)),
          attempts |-> Append(attempts, platform), raised |-> None]

\* an exception arrives in the frame on top of stack: the loop of a failover
\* frame catches it and goes on, an execute frame (which called the failover
\* in its handler) lets it pass
Raise(stack, attempts, exc) ==
    IF stack = <<>> THEN [stack |-> <<>>, attempts |-> attempts, raised |-> exc]
    ELSE IF Top(stack).fn = "failover" THEN FailoverLoop(stack, attempts)
    ELSE Raise(Pop(stack), attempts, exc)

\* the for loop of _failover_to_alternative_platform, from candidate i + 1
FailoverLoop(stack, attempts) ==
    LET frame == Top(stack)
        fallback_order == _get_fallback_platform_order(frame.platform)
        taken == Append(Pop(stack), FailoverFrame(frame.platform, frame.i + 1))
    IN  IF frame.i >= Len(fallback_order)
        THEN Raise(Pop(stack), attempts, "503:all platforms unavailable")
        ELSE IF fallback_order[frame.i + 1] = frame.platform
        THEN FailoverLoop(taken, attempts)
        ELSE CallExecute(taken, attempts, fallback_order[frame.i + 1])

\* the adapter awaited by the execute frame on top of stack raises
AdapterRaised(stack, attempts, fault_tolerance_enabled) ==
    IF ~fault_tolerance_enabled
    THEN Raise(Pop(stack), attempts, "503:platform unavailable")
    ELSE IF Len(stack) >= RecursionLimit
    THEN Raise(Pop(stack), attempts, "RecursionError")
    ELSE FailoverLoop(Append(stack, FailoverFrame(Top(stack).platform, 0)), attempts)

\* the adapter awaited by the execute frame on top of stack returns: every
\* failover frame below marks the result on its way up
AdapterReturned(stack, result) ==
    IF \E i \in DOMAIN stack : stack[i].fn = "failover"
    THEN [f \in DOMAIN result \cup {"fallback_enabled"} |->
             IF f = "fallback_enabled" THEN TRUE ELSE result[f]]
    ELSE result

\* ------------------------------------------------------------------------
\* EnterpriseUnifiedAIAPI: response, metrics
\* ------------------------------------------------------------------------

\* the error text alone, without the words the answer begins with
BareErrorText(platform_result) == Get(platform_result, "error", "unknown")

\* the answer of an error response (l.928): fixed words, then the error text
ErrorAnswer(platform_result) == "AI error: " \o Get(platform_result, "error", "unknown")

\* _build_unified_response
_build_unified_response(query_request, platform_used, platform_result) ==
    IF "error" \in DOMAIN platform_result
    THEN [query |-> QueryText(query_request.query),
          answer |-> ErrorAnswer(platform_result),
          platform_used |-> platform_used, confidence_score |-> 0,
          metadata |-> [error |-> TRUE, platform_error |-> Get(platform_result, "error", None)],
          user_feedback_invited |-> FALSE]
    ELSE [query |-> QueryText(query_request.query),
          answer |-> Get(platform_result, "answer", ""),
          platform_used |-> platform_used,
          confidence_score |-> Get(platform_result, "confidence", 0),
          metadata |-> [platform_metadata |-> Get(platform_result, "metadata", <<>>),
                        rightaway_from_cache |-> FALSE, enterprise_class |-> TRUE],
          user_feedback_invited |-> Get(platform_result, "confidence", 0) < 50]

\* EnterpriseUnifiedAIAPI.update_performance_metrics: the record handed on
performance_metrics(platform, result_data, t) ==
    [platform |-> platform, timestamp |-> t,
     processing_time |-> Get(result_data, "processing_time", 0),
     success |-> "error" \notin DOMAIN result_data,
     confidence |-> Get(result_data, "confidence", 50),
     fallback_enabled |-> Get(result_data, "fallback_enabled", FALSE)]

\* update_performance_metrics with [:100] for [-100:]
update_history_keeps_oldest(history, platform, metrics) ==
    LET old == Get(history, platform, <<>>)
        appended == Append(old, metrics)
        kept == IF Len(appended) > history_limit
                THEN SubSeq(appended, 1, history_limit)
                ELSE appended
    IN  [k \in DOMAIN history \cup {platform} |-> IF k = platform THEN kept ELSE history[k]]

\* EnterpriseDecisionEngine.update_performance_metrics: the history afterwards
update_history(history, platform, metrics) ==
    LET old == Get(history, platform, <<>>)
        appended == Append(old, metrics)
        kept == IF Len(appended) > history_limit
                THEN SubSeq(appended, Len(appended) - history_limit + 1, Len(appended))
                ELSE appended
    IN  [k \in DOMAIN history \cup {platform} |-> IF k = platform THEN kept ELSE history[k]]

update_stats(stats, platform, metrics) ==
    [k \in DOMAIN stats \cup {platform} |-> IF k = platform THEN metrics ELSE stats[k]]

\* ------------------------------------------------------------------------
\* State
\* ------------------------------------------------------------------------

VARIABLES
    now,                        \* datetime.now() / time.time(), in seconds
    ticks,                      \* clock advances so far
    config,                     \* EnterpriseAPIConfig: the fields the gateway reads
    cache_kind,                 \* the manager _initialize_cache_manager returned
    cache,                      \* the store of the cache manager: key -> entry
    platform_limits,            \* EnterpriseRateLimiter.platform_limits
    priority_queues,            \* EnterpriseQoSManager.priority_queues: qsize() of each
    recent_performance_stats,   \* EnterpriseDecisionEngine.recent_performance_stats
    usage_metrics_history,      \* EnterpriseDecisionEngine.usage_metrics_history (str keys)
    proc,                       \* the calls of process_unified_query in progress
    received,                   \* calls begun so far
    completed,                  \* calls ended so far
    last,                       \* the call that ended last, as its caller saw it
    injected                    \* the fault that reached the gateway last

\* The objects beside the gateway: each is used on its own, through its
\* methods.
VARIABLES
    environ,                    \* os.environ: the API key of each provider
    manager,                    \* a UnifiedModelManager: provider, config, adapter
    session_store,              \* EnterpriseSessionManager.session_store
    model_metrics,              \* ModelMetrics.metrics of the global instance
    returned                    \* the last call of a method of these: what it returned

components == <<environ, manager, session_store, model_metrics, returned>>

gateway == <<now, ticks, config, cache_kind, cache, platform_limits, priority_queues,
             recent_performance_stats, usage_metrics_history, proc, received, completed,
             last, injected>>

vars == <<now, ticks, config, cache_kind, cache, platform_limits, priority_queues,
          recent_performance_stats, usage_metrics_history, proc, received, completed,
          last, injected, environ, manager, session_store, model_metrics, returned>>

Procs == 1 .. NumProcs

NoRequest == [none |-> TRUE]
NoResult == [none |-> TRUE]

\* A call that has not begun.  pc is the place of the call: "idle", then
\* "cache" (awaiting get_cached_response), "qos" (suspended in the put of
\* handle_priority), "adapter" (awaiting execute_query).  prev is the number
\* of calls that had ended when this one began.
IdleProc ==
    [pc |-> "idle", request |-> NoRequest, prev |-> 0, best_platform |-> None,
     stack |-> <<>>, attempts |-> <<>>]

\* no call has ended yet
NoCall ==
    [request |-> NoRequest, prev |-> 0, platform_result |-> NoResult, status |-> None,
     response |-> NoResponse, t_done |-> 0]

\* no fault yet.  A fault is an exception that the call of an adapter raises
\* into _execute_platform_query, the CancelledError of a cancelled call, or an
\* exception of the cache store; at is the number of calls ended before it.
NoFault == [p |-> 0, what |-> None, at |-> 0]

ConfigLimits == {1, concurrent_request_limit_default}

\* the clock advances by a rate window, or by more than the ttl of an entry
TickSteps == {window_seconds, cache_ttl_seconds + 1}

\* no UnifiedModelManager constructed yet
NoManager == [provider |-> None]

\* ModelMetrics.__init__: the two dicts, and with `order` the keys of
\* "requests" in the order of their insertion
InitialMetrics ==
    [requests |-> [k \in {} |-> 0], order |-> <<>>, response_times |-> [k \in {} |-> <<>>]]

NoValue == [none |-> TRUE]

\* no method called yet.  n counts the calls, call and arg name the method
\* and its argument, raised the exception that left it (None when it
\* returned), value what it returned (NoValue for None)
NoReturn == [n |-> 0, call |-> None, arg |-> None, raised |-> None, value |-> NoValue]

\* the call of `call` with `arg` ends in this step
Returns(call, arg, raised, value) ==
    returned' = [n |-> returned.n + 1, call |-> call, arg |-> arg, raised |-> raised,
                 value |-> value]

\* this step is a call of `call`
Called(call) == returned'.n = returned.n + 1 /\ returned'.call = call

\* the objects beside the gateway before their first use
InitComponents ==
    /\ environ = [k \in {} |-> None]
    /\ manager = NoManager
    /\ session_store = [k \in {} |-> NoValue]
    /\ model_metrics = InitialMetrics
    /\ returned = NoReturn

\* the gateway after EnterpriseUnifiedGateway.__init__
InitGateway ==
    /\ now = 0
    /\ ticks = 0
    /\ config \in [fault_tolerance_enabled : BOOLEAN, concurrent_request_limit : ConfigLimits]
    /\ cache_kind \in CacheKinds
    /\ cache = [k \in {} |-> NoResponse]
    /\ platform_limits = InitialPlatformLimits(config.concurrent_request_limit, 0)
    /\ priority_queues = [p \in QueryPriority |-> 0]
    /\ recent_performance_stats = [k \in {} |-> NoResult]
    /\ usage_metrics_history = [k \in {} |-> <<>>]
    /\ proc = [p \in Procs |-> IdleProc]
    /\ received = 0
    /\ completed = 0
    /\ last = NoCall
    /\ injected = NoFault

Init == InitGateway /\ InitComponents

\* the gateway of EnterpriseAPIConfig(), with the Redis cache manager
InitDefaultGateway ==
    /\ InitGateway
    /\ config = [fault_tolerance_enabled |-> TRUE,
                 concurrent_request_limit |-> concurrent_request_limit_default]
    /\ cache_kind = "redis"

\* the handlers of process_unified_query around step 6: an HTTPException is
\* raised again, any other exception becomes the HTTPException 500
TopLevelStatus(exc) ==
    IF exc \in {"400:unsupported platform", "503:platform unavailable",
                "503:all platforms unavailable"}
    THEN exc ELSE "500:error"

\* the call `call` ends: with a response (status "200"), or with the
\* HTTPException or exception `status`
Ends(p, call, status, response, platform_result) ==
    /\ proc' = [proc EXCEPT ![p] = IdleProc]
    /\ completed' = completed + 1
    /\ last' = [request |-> call.request, prev |-> call.prev,
                platform_result |-> platform_result, status |-> status,
                response |-> response, t_done |-> now]

\* ------------------------------------------------------------------------
\* process_unified_query
\* ------------------------------------------------------------------------

\* Receive with the two checks in the other order: the rate limiter counts
\* the request before it is validated
ReceiveLimiterFirst(p, query_request) ==
    /\ proc[p].pc = "idle"
    /\ received < MaxRequests
    /\ received' = received + 1
    /\ LET started == [IdleProc EXCEPT !.request = query_request, !.prev = completed]
           allowed == is_request_allowed(platform_limits, "unified", now)
       IN  /\ platform_limits' = allowed[2]
           /\ IF ~allowed[1]
              THEN Ends(p, started, "429:rate limit", NoResponse, NoResult)
              ELSE IF ~_validate_query_request(query_request)[1]
              THEN Ends(p, started, "400:invalid request", NoResponse, NoResult)
              ELSE /\ proc' = [proc EXCEPT ![p] = [started EXCEPT !.pc = "cache"]]
                   /\ UNCHANGED <<completed, last>>
    /\ UNCHANGED <<components, now, ticks, config, cache_kind, cache, priority_queues,
                   recent_performance_stats, usage_metrics_history, injected>>

\* steps 1 and 2: validation, then the rate limiter
Receive(p, query_request) ==
    /\ proc[p].pc = "idle"
    /\ received < MaxRequests
    /\ received' = received + 1
    /\ LET started == [IdleProc EXCEPT !.request = query_request, !.prev = completed]
           allowed == is_request_allowed(platform_limits, "unified", now)
       IN  IF ~_validate_query_request(query_request)[1]
           THEN /\ Ends(p, started, "400:invalid request", NoResponse, NoResult)
                /\ UNCHANGED platform_limits
           ELSE IF ~allowed[1]
           THEN /\ Ends(p, started, "429:rate limit", NoResponse, NoResult)
                /\ platform_limits' = allowed[2]
           ELSE /\ proc' = [proc EXCEPT ![p] = [started EXCEPT !.pc = "cache"]]
                /\ platform_limits' = allowed[2]
                /\ UNCHANGED <<completed, last>>
    /\ UNCHANGED <<components, now, ticks, config, cache_kind, cache, priority_queues,
                   recent_performance_stats, usage_metrics_history, injected>>

\* the cached response as process_unified_query returns it
MarkHit(response) ==
    [f \in DOMAIN response \cup {"cache_hit"} |->
        IF f = "cache_hit" THEN TRUE ELSE response[f]]

\* handle_priority: qsize() of each queue after the put, which returns without
\* suspending when the queue of the priority has room
handle_priority(queues, request) == [queues EXCEPT ![request.priority] = @ + 1]

\* steps 4 to 6, up to the first adapter call: the decision engine, the put
\* of handle_priority and the call of _execute_platform_query.  Nothing ever
\* takes a request out of a priority queue, so a put that finds its queue
\* full never returns: the call stays at "qos".
Dispatches(p) ==
    LET query_request == proc[p].request
        best_platform == select_best_platform(recent_performance_stats, query_request)
        chain == CallExecute(<<>>, <<>>, best_platform)
        chosen == [proc[p] EXCEPT !.best_platform = best_platform]
    IN  IF best_platform = "UnboundLocalError"
        THEN /\ Ends(p, proc[p], "UnboundLocalError", NoResponse, NoResult)
             /\ UNCHANGED <<cache, priority_queues>>
        ELSE IF priority_queues[query_request.priority]
                    >= queue_maxsize[query_request.priority]
        THEN /\ proc' = [proc EXCEPT ![p] = [chosen EXCEPT !.pc = "qos"]]
             /\ UNCHANGED <<completed, last, cache, priority_queues>>
        ELSE /\ priority_queues' = handle_priority(priority_queues, query_request)
             /\ IF chain.raised # None
                THEN Ends(p, chosen, TopLevelStatus(chain.raised), NoResponse, NoResult)
                ELSE /\ proc' = [proc EXCEPT ![p] =
                                    [chosen EXCEPT !.pc = "adapter", !.stack = chain.stack,
                                                   !.attempts = chain.attempts]]
                     /\ UNCHANGED <<completed, last>>
             /\ UNCHANGED cache

\* step 3, the cache lookup, and on a miss steps 4 to 6 up to the first
\* adapter call
CacheLookup(p) ==
    /\ proc[p].pc = "cache"
    /\ LET query_request == proc[p].request
           cached_response == get_cached_response(cache_kind, cache, query_request, now)
           cache_key == _generate_cache_key(cache_kind, query_request)
       IN  IF cached_response # NoResponse
           THEN /\ Ends(p, proc[p], "200", MarkHit(cached_response), NoResult)
                \* the in-memory managers hand out the stored object itself
                /\ cache' = IF cache_kind = "redis" THEN cache
                            ELSE [cache EXCEPT ![cache_key].value = MarkHit(cached_response)]
                /\ UNCHANGED priority_queues
           ELSE Dispatches(p)
    /\ UNCHANGED <<components, now, ticks, config, cache_kind, platform_limits,
                   recent_performance_stats, usage_metrics_history, received, injected>>

\* steps 7 to 9 after the chain returned result: the response is built for
\* best_platform, the cache manager leaves the store as written, the metrics
\* are updated, the response is returned
Completes(p, result, written) ==
    LET query_request == proc[p].request
        best_platform == proc[p].best_platform
        platform_result == AdapterReturned(proc[p].stack, result)
        unified_response == _build_unified_response(query_request, best_platform,
                                                    platform_result)
        metrics == performance_metrics(best_platform, platform_result, now)
    IN  /\ cache' = written
        /\ recent_performance_stats' =
               update_stats(recent_performance_stats, best_platform, metrics)
        /\ usage_metrics_history' =
               update_history(usage_metrics_history, best_platform, metrics)
        /\ Ends(p, proc[p], "200", unified_response, platform_result)

\* the response process_unified_query builds when the chain of p returns result
BuiltResponse(p, result) ==
    _build_unified_response(proc[p].request, proc[p].best_platform,
                            AdapterReturned(proc[p].stack, result))

\* steps 6 to 9: the call of execute_query at l.866 raises (the adapters
\* that declare a second parameter raise TypeError there), or returns a
\* result; the chain goes on to the next adapter, or the call ends
AdapterCompletes(p, raises, result) ==
    /\ proc[p].pc = "adapter"
    /\ result \in AdapterResults(Top(proc[p].stack).platform)
    /\ IF raises
       THEN LET chain == AdapterRaised(proc[p].stack, proc[p].attempts,
                                       config.fault_tolerance_enabled)
            IN  /\ IF chain.raised # None
                   THEN Ends(p, proc[p], TopLevelStatus(chain.raised), NoResponse, NoResult)
                   ELSE /\ proc' = [proc EXCEPT ![p].stack = chain.stack,
                                                ![p].attempts = chain.attempts]
                        /\ UNCHANGED <<completed, last>>
                /\ UNCHANGED <<cache, recent_performance_stats, usage_metrics_history>>
       ELSE Completes(p, result,
                      cache_response(cache_kind, cache, proc[p].request,
                                     BuiltResponse(p, result), cache_ttl_seconds, now))
    /\ UNCHANGED <<components, now, ticks, config, cache_kind, platform_limits, priority_queues, received,
                   injected>>

\* time passes
Tick(d) ==
    /\ ticks < MaxTicks
    /\ ticks' = ticks + 1
    /\ now' = now + d
    /\ UNCHANGED <<components, config, cache_kind, cache, platform_limits, priority_queues,
                   recent_performance_stats, usage_metrics_history, proc, received,
                   completed, last, injected>>

Next ==
    \/ \E p \in Procs, query_request \in Requests : Receive(p, query_request)
    \/ \E p \in Procs : CacheLookup(p)
    \/ \E p \in Procs, raises \in BOOLEAN, result \in AllAdapterResults :
          AdapterCompletes(p, raises, result)
    \/ \E d \in TickSteps : Tick(d)

Spec == Init /\ [][Next]_vars

\* ------------------------------------------------------------------------
\* Exception classes of the adapter call
\* ------------------------------------------------------------------------

\* What the call of execute_query at l.866 may raise into the handler of
\* l.868: the TypeError of a call that does not fit the adapter's signature
\* (l.202, l.283), which no other adapter can serve either, or an error of
\* the transport that another platform may not have.
NonRetryableErrors == {"TypeError"}
RetryableErrors == {"TimeoutError"}
AdapterExceptions == NonRetryableErrors \cup RetryableErrors

\* the fault that p meets now
Fault(p, what) == [p |-> p, what |-> what, at |-> completed]

\* the adapter call of p raises exc: the handler of l.868 takes every
\* Exception the same way
AdapterRaises(p, exc) ==
    /\ proc[p].pc = "adapter"
    /\ injected' = Fault(p, exc)
    /\ LET chain == AdapterRaised(proc[p].stack, proc[p].attempts,
                                  config.fault_tolerance_enabled)
       IN  IF chain.raised # None
           THEN Ends(p, proc[p], TopLevelStatus(chain.raised), NoResponse, NoResult)
           ELSE /\ proc' = [proc EXCEPT ![p].stack = chain.stack,
                                        ![p].attempts = chain.attempts]
                /\ UNCHANGED <<completed, last>>
    /\ UNCHANGED <<components, now, ticks, config, cache_kind, cache, platform_limits, priority_queues,
                   recent_performance_stats, usage_metrics_history, received>>

\* the adapter call of p returns
AdapterReturns(p, result) == AdapterCompletes(p, FALSE, result)

NextErrors ==
    \/ \E p \in Procs, query_request \in Requests : Receive(p, query_request)
    \/ \E p \in Procs : CacheLookup(p)
    \/ \E p \in Procs, result \in AllAdapterResults : AdapterReturns(p, result)
    \/ \E p \in Procs, exc \in AdapterExceptions : AdapterRaises(p, exc)
    \/ \E d \in TickSteps : Tick(d)

\* the gateway as EnterpriseAPIConfig() configures it, with the first cache
\* manager of _initialize_cache_manager
InitErrors ==
    /\ Init
    /\ config.concurrent_request_limit = concurrent_request_limit_default
    /\ cache_kind = "redis"

SpecErrors == InitErrors /\ [][NextErrors]_vars

\* ------------------------------------------------------------------------
\* Cancellation
\* ------------------------------------------------------------------------

\* the CancelledError taken like an exception of the adapter, as a handler
\* for BaseException would take it
CancelCaught(p) == AdapterRaises(p, "CancelledError")

\* The caller cancels the call of p while it awaits an adapter: the await of
\* l.866 raises asyncio.CancelledError, a BaseException, which none of the
\* handlers for Exception (l.868, l.895, l.828, and those of the adapters)
\* takes, so it leaves process_unified_query.
Cancel(p) ==
    /\ proc[p].pc = "adapter"
    /\ injected' = Fault(p, "CancelledError")
    /\ Ends(p, proc[p], "CancelledError", NoResponse, NoResult)
    /\ UNCHANGED <<components, now, ticks, config, cache_kind, cache, platform_limits, priority_queues,
                   recent_performance_stats, usage_metrics_history, received>>

NextCancel ==
    \/ Next
    \/ \E p \in Procs : Cancel(p)

\* the gateway as EnterpriseAPIConfig() limits it
InitCancel ==
    /\ Init
    /\ config.concurrent_request_limit = concurrent_request_limit_default

SpecCancel == InitCancel /\ [][NextCancel]_vars

\* ------------------------------------------------------------------------
\* Failures of the cache store
\* ------------------------------------------------------------------------

\* the exception of the store leaves get_cached_response, as it would
\* without the handler of l.1097
ReadRaises(kind, store, request, t) == [raised |-> "ConnectionError", value |-> NoResponse]

\* get_cached_response when the store raises on the read: the handler
\* (l.1097-1099) logs the exception and None is returned
FailedRead(kind, store, request, t) == [raised |-> None, value |-> NoResponse]

\* cache_response when the store raises on the write: the handler
\* (l.1127-1128) logs the exception, the store is as before
FailedWrite(kind, store, request, response, ttl_seconds, t) ==
    [raised |-> None, store |-> store]

\* the Redis store raises while get_cached_response of p awaits it
CacheReadFails(p) ==
    /\ proc[p].pc = "cache"
    /\ cache_kind = "redis"
    /\ injected' = Fault(p, "cache read")
    /\ LET looked == FailedRead(cache_kind, cache, proc[p].request, now)
       IN  IF looked.raised # None
           THEN \* l.791 is outside the try of process_unified_query
                /\ Ends(p, proc[p], looked.raised, NoResponse, NoResult)
                /\ UNCHANGED <<cache, priority_queues>>
           ELSE Dispatches(p)
    /\ UNCHANGED <<components, now, ticks, config, cache_kind, platform_limits,
                   recent_performance_stats, usage_metrics_history, received>>

\* the chain of p returns result and the Redis store raises while
\* cache_response awaits it
CacheWriteFails(p, result) ==
    /\ proc[p].pc = "adapter"
    /\ result \in AdapterResults(Top(proc[p].stack).platform)
    /\ cache_kind = "redis"
    /\ injected' = Fault(p, "cache write")
    /\ LET stored == FailedWrite(cache_kind, cache, proc[p].request,
                                 BuiltResponse(p, result), cache_ttl_seconds, now)
       IN  IF stored.raised # None
           THEN \* l.813 is inside the try: the handler of l.828 answers 500
                /\ Ends(p, proc[p], TopLevelStatus(stored.raised), NoResponse, NoResult)
                /\ UNCHANGED <<cache, recent_performance_stats, usage_metrics_history>>
           ELSE Completes(p, result, stored.store)
    /\ UNCHANGED <<components, now, ticks, config, cache_kind, platform_limits, priority_queues, received>>

\* the requests received while the store fails: a request that is dispatched,
\* and one for which the decision engine raises
CacheFaultRequests == {BaseRequest, [BaseRequest EXCEPT !.language = "en"]}

NextCacheFaults ==
    \/ \E p \in Procs, query_request \in CacheFaultRequests : Receive(p, query_request)
    \/ \E p \in Procs : CacheLookup(p)
    \/ \E p \in Procs, raises \in BOOLEAN, result \in AllAdapterResults :
          AdapterCompletes(p, raises, result)
    \/ \E d \in TickSteps : Tick(d)
    \/ \E p \in Procs : CacheReadFails(p)
    \/ \E p \in Procs, result \in AllAdapterResults : CacheWriteFails(p, result)

\* the gateway with the Redis cache manager
InitCacheFaults ==
    /\ Init
    /\ cache_kind = "redis"

SpecCacheFaults == InitCacheFaults /\ [][NextCacheFaults]_vars

\* ------------------------------------------------------------------------
\* Values the backends report
\* ------------------------------------------------------------------------

\* str(e) of the exception an adapter caught: the text of the exception, the
\* empty text of an exception raised without arguments; and no text (None)
ErrorTexts == {"failed", "", None}

\* the confidence in a result, in hundredths: metadata.confidence of the
\* reply of Dify (l.240) and the mean score of the chunks RAGFlow retrieved
\* (l.345) are numbers of the backend, taken as they come
ReportedConfidences == {-20, 40, 150}

\* what execute_query of a platform's adapter returns for the replies of its
\* backend
BackendResults(platform) ==
    {[error |-> e, platform |-> platform] : e \in ErrorTexts}
    \cup (IF platform = "n8n"
          THEN {}
          ELSE {[platform |-> platform, answer |-> "a1", confidence |-> c,
                 processing_time |-> 300] : c \in ReportedConfidences})

AllBackendResults == UNION {BackendResults(platform) : platform \in platform_adapters}

\* the chain of p returns the result the adapter made of the backend's reply
AdapterReports(p, result) ==
    /\ proc[p].pc = "adapter"
    /\ result \in BackendResults(Top(proc[p].stack).platform)
    /\ Completes(p, result,
                 cache_response(cache_kind, cache, proc[p].request,
                                BuiltResponse(p, result), cache_ttl_seconds, now))
    /\ UNCHANGED <<components, now, ticks, config, cache_kind, platform_limits, priority_queues, received,
                   injected>>

\* the requests received
BackendRequests == {BaseRequest}

NextBackends ==
    \/ \E p \in Procs, query_request \in BackendRequests : Receive(p, query_request)
    \/ \E p \in Procs : CacheLookup(p)
    \/ \E p \in Procs, raises \in BOOLEAN, result \in AllAdapterResults :
          AdapterCompletes(p, raises, result)
    \/ \E d \in TickSteps : Tick(d)
    \/ \E p \in Procs, result \in AllBackendResults : AdapterReports(p, result)

SpecBackends == InitCancel /\ [][NextBackends]_vars

\* ------------------------------------------------------------------------
\* Requests that reach validation
\* ------------------------------------------------------------------------

RECURSIVE Pow(_, _)
\* the word w, doubled k times
Pow(w, k) == IF k = 0 THEN w ELSE Pow(w \o w, k - 1)

\* a word of 2000 characters (1024 + 512 + 256 + 128 + 64 + 16), the longest
\* query l.838 lets pass
LongestWord ==
    Pow("x", 10) \o Pow("x", 9) \o Pow("x", 8) \o Pow("x", 7) \o Pow("x", 6) \o Pow("x", 4)

\* UnifiedQueryRequest is a dataclass: it takes whatever its caller gives for
\* a field, also a priority or a response format that is no member of the
\* enumerations
ValidationRequests ==
    {BaseRequest,
     [BaseRequest EXCEPT !.query = <<>>],
     [BaseRequest EXCEPT !.query = <<" ", "  ">>],
     [BaseRequest EXCEPT !.query = <<LongestWord>>],
     [BaseRequest EXCEPT !.query = <<LongestWord, "x">>],
     [BaseRequest EXCEPT !.query = <<"chazhao", "<script>">>],
     [BaseRequest EXCEPT !.priority = CRITICAL],
     [BaseRequest EXCEPT !.priority = CRITICAL, !.query = <<"chazhao", "<script>">>],
     [BaseRequest EXCEPT !.priority = "urgent"],
     [BaseRequest EXCEPT !.response_format = "yaml"]}

\* steps 1 and 2 of process_unified_query for these requests
NextValidation ==
    \/ \E p \in Procs, query_request \in ValidationRequests : Receive(p, query_request)
    \/ \E d \in TickSteps : Tick(d)

SpecValidation == Init /\ [][NextValidation]_vars

\* ------------------------------------------------------------------------
\* The requests of main()
\* ------------------------------------------------------------------------

\* test case 1 (l.1332-1341), a question about compliance requirements: of
\* its words, chuli is a keyword of workflow_automation and shuju one of
\* data_analysis
knowledge_query ==
    [query |-> <<"qiye", "de", "anquan", "celue", "dui", "yuangong", "shuju", "chuli",
                 "you", "naxie", "hegui", "yaoqiu">>,
     platform_preference |-> None, context |-> <<>>, priority |-> NORMAL,
     response_format |-> "json", language |-> "zh",
     metadata |-> [user_id |-> "enterprise_user_001", session_id |-> "s1"]]

\* test case 2 (l.1358-1368), the creation of a synchronisation workflow
workflow_query ==
    [query |-> <<"chuangjian", "yige", "zidong", "hua", "de", "kehu", "shuju", "tongbu",
                 "liucheng", "jiancha", "shujuyuan", "fasong", "tongzhi">>,
     platform_preference |-> None, context |-> <<>>, priority |-> HIGH,
     response_format |-> "json", language |-> "zh",
     metadata |-> [user_id |-> "workflow_admin_002", session_id |-> "s2"]]

MainRequests == {knowledge_query, workflow_query}

NextMain ==
    \/ \E p \in Procs, query_request \in MainRequests : Receive(p, query_request)
    \/ \E p \in Procs : CacheLookup(p)
    \/ \E p \in Procs, raises \in BOOLEAN, result \in AllAdapterResults :
          AdapterCompletes(p, raises, result)
    \/ \E d \in TickSteps : Tick(d)

SpecMain == InitCancel /\ [][NextMain]_vars

\* ------------------------------------------------------------------------
\* Requests of every priority class
\* ------------------------------------------------------------------------

\* one request in each class of QueryPriority (l.553-582)
PriorityRequests == {[BaseRequest EXCEPT !.priority = priority] : priority \in QueryPriority}

NextPriorities ==
    \/ \E p \in Procs, query_request \in PriorityRequests : Receive(p, query_request)
    \/ \E p \in Procs : CacheLookup(p)
    \/ \E p \in Procs, raises \in BOOLEAN, result \in AllAdapterResults :
          AdapterCompletes(p, raises, result)
    \/ \E d \in TickSteps : Tick(d)

SpecPriorities == InitErrors /\ [][NextPriorities]_vars


\* ------------------------------------------------------------------------
\* The metrics history on its own: update_performance_metrics of the decision
\* engine, called time after time
\* ------------------------------------------------------------------------

\* the sample of the call: every call reports the same result, at its own time
RecordedResult == [platform |-> "dify", answer |-> "a1", confidence |-> 75,
                   processing_time |-> 300]

\* the platforms recorded: "ragflow" during the first calls only, so that
\* the history of "dify" passes its limit
HistoryPlatforms == IF returned.n < OtherSamples THEN {"dify", "ragflow"} ELSE {"dify"}

\* EnterpriseDecisionEngine.update_performance_metrics(platform, metrics)
UpdatePerformanceMetrics(platform) ==
    LET sample == performance_metrics(platform, RecordedResult, now)
    IN  /\ returned.n < MaxSamples
        /\ recent_performance_stats' = update_stats(recent_performance_stats, platform, sample)
        /\ usage_metrics_history' = update_history(usage_metrics_history, platform, sample)
        /\ now' = now + 1
        /\ Returns("update_performance_metrics", platform, None, NoValue)
        /\ UNCHANGED <<environ, manager, session_store, model_metrics, ticks, config,
                       cache_kind, cache, platform_limits, priority_queues, proc,
                       received, completed, last, injected>>

NextHistory == \E platform \in HistoryPlatforms : UpdatePerformanceMetrics(platform)

SpecHistory == InitCancel /\ [][NextHistory]_vars


\* ------------------------------------------------------------------------
\* The rate limiter on its own: calls of is_request_allowed from concurrent
\* tasks.  The coroutine has no await, so a call is one step of the event
\* loop and the calls of the tasks follow one another in any order.
\* ------------------------------------------------------------------------

\* the entries asked for: the default one and those of two platforms
LimiterPlatforms == {"unified", "dify", "ragflow"}

\* half a window and a whole one
LimiterSteps == {window_seconds \div 2, window_seconds}

\* EnterpriseRateLimiter.is_request_allowed(request_id, platform)
IsRequestAllowed(platform) ==
    LET allowed == is_request_allowed(platform_limits, platform, now)
    IN  /\ returned.n < MaxLimiterCalls
        /\ platform_limits' = allowed[2]
        /\ Returns("is_request_allowed", platform, None, [allowed |-> allowed[1]])
        /\ UNCHANGED <<environ, manager, session_store, model_metrics, now, ticks,
                       config, cache_kind, cache, priority_queues,
                       recent_performance_stats, usage_metrics_history, proc, received,
                       completed, last, injected>>

\* datetime.now() advances between two calls
LimiterTick(d) ==
    /\ ticks < MaxLimiterTicks
    /\ now' = now + d
    /\ ticks' = ticks + 1
    /\ UNCHANGED <<components, config, cache_kind, cache, platform_limits,
                   priority_queues, recent_performance_stats, usage_metrics_history,
                   proc, received, completed, last, injected>>

NextLimiter ==
    \/ \E platform \in LimiterPlatforms : IsRequestAllowed(platform)
    \/ \E d \in LimiterSteps : LimiterTick(d)

SpecLimiter == Init /\ [][NextLimiter]_vars


\* ------------------------------------------------------------------------
\* UnifiedModelManager (config/model_adapters.py)
\* ------------------------------------------------------------------------

\* ModelAdapterFactory._adapters: the adapter class of each provider
_adapters ==
    [deepseek |-> "DeepSeekAdapter", zhipu |-> "ZhipuAdapter",
     moonshot |-> "MoonshotAdapter", openai |-> "OpenAIAdapter"]

\* config_mapping of _load_provider_config: the environment variable of the
\* API key and the default of the model name of each provider
config_mapping ==
    [deepseek |-> [api_key |-> "DEEPSEEK_API_KEY", model_name |-> "deepseek-chat"],
     zhipu    |-> [api_key |-> "ZHIPU_API_KEY", model_name |-> "glm-4"],
     moonshot |-> [api_key |-> "MOONSHOT_API_KEY", model_name |-> "moonshot-v1-8k"],
     openai   |-> [api_key |-> "OPENAI_API_KEY", model_name |-> "gpt-3.5-turbo"]]

\* the environments: each API key is not set, empty, or the key of the tests;
\* the variables of the base urls and of the model names are not set
test_keys ==
    [DEEPSEEK_API_KEY |-> "test_deepseek_key", ZHIPU_API_KEY |-> "test_zhipu_key",
     MOONSHOT_API_KEY |-> "test_moonshot_key", OPENAI_API_KEY |-> "test_openai_key"]

Environments ==
    {env \in [DOMAIN test_keys -> {None, ""} \cup Range(test_keys)] :
        \A name \in DOMAIN env : env[name] \in {None, "", test_keys[name]}}

\* os.getenv(name, default)
getenv(env, name, default) == IF name \in DOMAIN env /\ env[name] # None THEN env[name] ELSE default

\* `not value` of an optional string
Falsy(value) == value \in {None, ""}

\* UnifiedModelManager._load_provider_config: the ModelConfig, or the
\* exception raised
_load_provider_config(env, provider) ==
    IF provider \notin DOMAIN config_mapping
    THEN [raised |-> "ValueError: Unsupported provider", config |-> NoValue]
    ELSE LET config_data ==
                 [api_key |-> getenv(env, config_mapping[provider].api_key, None),
                  base_url |-> None,
                  model_name |-> config_mapping[provider].model_name]
         IN  IF Falsy(config_data.api_key)
             THEN [raised |-> "ValueError: API_KEY is required", config |-> NoValue]
             ELSE [raised |-> None, config |-> config_data]

\* ModelAdapterFactory.create_adapter: the adapter, or the exception raised
create_adapter(provider, model_config) ==
    IF provider \notin DOMAIN _adapters
    THEN [raised |-> "ValueError: Unsupported provider", adapter |-> NoValue]
    ELSE [raised |-> None,
          adapter |-> [class |-> _adapters[provider], config |-> model_config]]

\* BaseModelAdapter.provider_name: the class name without "Adapter", in lower case
provider_name(adapter) ==
    CHOOSE p \in DOMAIN _adapters : _adapters[p] = adapter.class

\* the three assignments of __init__ and of switch_provider, in their order:
\* the manager afterwards, and the exception that ended them early
Assign(self, env, provider) ==
    LET first == [self EXCEPT !.provider = provider]
        loaded == _load_provider_config(env, provider)
        second == [first EXCEPT !.config = loaded.config]
        created == create_adapter(provider, loaded.config)
    IN  IF loaded.raised # None THEN [self |-> first, raised |-> loaded.raised]
        ELSE IF created.raised # None THEN [self |-> second, raised |-> created.raised]
        ELSE [self |-> [second EXCEPT !.adapter = created.adapter], raised |-> None]

\* switch_provider without its second assignment
switch_provider_keeps_config(self, env, new_provider) ==
    LET assigned == Assign(self, env, new_provider)
    IN  IF assigned.raised # None THEN assigned
        ELSE [assigned EXCEPT !.self.config = self.config]

\* UnifiedModelManager.switch_provider
switch_provider(self, env, new_provider) == Assign(self, env, new_provider)

\* the providers asked for: the supported ones and one that is not
ProviderArguments == DOMAIN _adapters \cup {"invalid"}

\* UnifiedModelManager(provider): provider None stands for DEFAULT_PROVIDER,
\* "deepseek" when it is not set.  An exception leaves no manager behind.
Construct(provider) ==
    LET chosen == IF provider = None THEN getenv(environ, "DEFAULT_PROVIDER", "deepseek")
                  ELSE provider
        blank == [provider |-> None, config |-> NoValue, adapter |-> NoValue]
        assigned == Assign(blank, environ, chosen)
    IN  /\ manager = NoManager
        /\ returned.n < MaxManagerCalls
        /\ manager' = IF assigned.raised = None THEN assigned.self ELSE manager
        /\ Returns("UnifiedModelManager", provider, assigned.raised, NoValue)
        /\ UNCHANGED <<gateway, environ, session_store, model_metrics>>

\* manager.switch_provider(new_provider)
SwitchProvider(new_provider) ==
    LET switched == switch_provider(manager, environ, new_provider)
    IN  /\ manager # NoManager
        /\ returned.n < MaxManagerCalls
        /\ manager' = switched.self
        /\ Returns("switch_provider", new_provider, switched.raised, NoValue)
        /\ UNCHANGED <<gateway, environ, session_store, model_metrics>>

NextManager ==
    \/ \E provider \in ProviderArguments \cup {None} : Construct(provider)
    \/ \E new_provider \in ProviderArguments : SwitchProvider(new_provider)

InitManager ==
    /\ InitDefaultGateway
    /\ environ \in Environments
    /\ manager = NoManager
    /\ session_store = [k \in {} |-> NoValue]
    /\ model_metrics = InitialMetrics
    /\ returned = NoReturn

SpecManager == InitManager /\ [][NextManager]_vars


\* ------------------------------------------------------------------------
\* EnterpriseSessionManager
\* ------------------------------------------------------------------------

\* timedelta(minutes=self.timeout_minutes), in seconds
session_timeout == timeout_minutes * 60

\* the session ids uuid4 may give, and the users
SessionIds == {"entsess_1", "entsess_2"}
UserIds == {"ent_user_001"}

\* half the timeout, and the timeout and a second
SessionSteps == {session_timeout \div 2, session_timeout + 1}

\* create_session: the store afterwards
create_session(store, session_id, user_id, t) ==
    [k \in DOMAIN store \cup {session_id} |->
        IF k = session_id
        THEN [user_id |-> user_id, created_at |-> t, last_activity |-> t, is_active |-> TRUE]
        ELSE store[k]]

\* validate_session without the update of last_activity
validate_session_from_creation(store, session_id, t) ==
    IF session_id \notin DOMAIN store \/ ~store[session_id].is_active
    THEN [store |-> store, value |-> NoValue]
    ELSE IF t - store[session_id].last_activity > session_timeout
    THEN [store |-> [store EXCEPT ![session_id].is_active = FALSE], value |-> NoValue]
    ELSE [store |-> store,
          value |-> [user_id |-> store[session_id].user_id,
                     created_at |-> store[session_id].created_at]]

\* validate_session: the store afterwards and the value returned
validate_session(store, session_id, t) ==
    IF session_id \notin DOMAIN store \/ ~store[session_id].is_active
    THEN [store |-> store, value |-> NoValue]
    ELSE IF t - store[session_id].last_activity > session_timeout
    THEN [store |-> [store EXCEPT ![session_id].is_active = FALSE], value |-> NoValue]
    ELSE [store |-> [store EXCEPT ![session_id].last_activity = t],
          value |-> [user_id |-> store[session_id].user_id,
                     created_at |-> store[session_id].created_at]]

\* session_manager.create_session(user_id): uuid4 gives an id not given before
CreateSession(session_id, user_id) ==
    /\ session_id \notin DOMAIN session_store
    /\ returned.n < MaxSessionCalls
    /\ session_store' = create_session(session_store, session_id, user_id, now)
    /\ Returns("create_session", user_id, None, [session_id |-> session_id])
    /\ UNCHANGED <<gateway, environ, manager, model_metrics>>

\* session_manager.validate_session(session_id)
ValidateSession(session_id) ==
    LET validated == validate_session(session_store, session_id, now)
    IN  /\ returned.n < MaxSessionCalls
        /\ session_store' = validated.store
        /\ Returns("validate_session", session_id, None, validated.value)
        /\ UNCHANGED <<gateway, environ, manager, model_metrics>>

\* datetime.now() advances between two calls
SessionTick(d) ==
    /\ ticks < MaxSessionTicks
    /\ now' = now + d
    /\ ticks' = ticks + 1
    /\ UNCHANGED <<components, config, cache_kind, cache, platform_limits,
                   priority_queues, recent_performance_stats, usage_metrics_history,
                   proc, received, completed, last, injected>>

NextSessions ==
    \/ \E session_id \in SessionIds, user_id \in UserIds : CreateSession(session_id, user_id)
    \/ \E session_id \in SessionIds : ValidateSession(session_id)
    \/ \E d \in SessionSteps : SessionTick(d)

InitSessions == InitDefaultGateway /\ InitComponents

SpecSessions == InitSessions /\ [][NextSessions]_vars


\* ------------------------------------------------------------------------
\* ModelMetrics (monitoring/metrics_simple.py)
\* ------------------------------------------------------------------------

\* the providers and their models: names without an underscore.  A key
\* f"{provider}_{model}" is the pair of its two parts, and key.split("_")[0]
\* is the first of them.
ProviderModels ==
    [deepseek |-> {"deepseek-chat", "deepseek-coder"}, zhipu |-> {"glm-4"}]
Statuses == {"success", "error"}
\* durations in hundredths of a second
Durations == {0, 120}

MetricsKey(provider, model) == <<provider, model>>
SplitFirst(key) == key[1]

\* ModelMetrics.record_request: metrics afterwards
record_request(m, provider, model, status, duration) ==
    LET key == MetricsKey(provider, model)
        old == IF key \in DOMAIN m.requests THEN m.requests[key]
               ELSE [success |-> 0, error |-> 0, total |-> 0]
        new == [old EXCEPT ![status] = @ + 1, !.total = @ + 1]
        times == IF key \in DOMAIN m.response_times THEN m.response_times[key] ELSE <<>>
    IN  [requests |-> [k \in DOMAIN m.requests \cup {key} |->
                          IF k = key THEN new ELSE m.requests[k]],
         order |-> IF key \in DOMAIN m.requests THEN m.order ELSE Append(m.order, key),
         response_times |->
             IF status = "success" /\ duration > 0
             THEN [k \in DOMAIN m.response_times \cup {key} |->
                      IF k = key THEN Append(times, duration) ELSE m.response_times[k]]
             ELSE m.response_times]

\* the loop of get_summary from the i-th key on; success_rate in units of 1/Scale
RECURSIVE SummaryLoop(_, _, _)
SummaryLoop(m, i, summary) ==
    IF i > Len(m.order) THEN summary
    ELSE LET key == m.order[i]
             data == m.requests[key]
             provider == SplitFirst(key)
             success_rate == IF data.total > 0 THEN (data.success * Scale) \div data.total
                             ELSE 0
         IN  SummaryLoop(m, i + 1,
                 [summary EXCEPT
                     !.total_requests = @ + data.total,
                     !.providers = [p \in DOMAIN @ \cup {provider} |->
                                       IF p = provider
                                       THEN [requests |-> data.total,
                                             success_rate |-> success_rate]
                                       ELSE @[p]]])

\* ModelMetrics.get_summary
get_summary(m, t) ==
    SummaryLoop(m, 1, [timestamp |-> t, total_requests |-> 0,
                       providers |-> [p \in {} |-> NoValue]])

\* model_metrics.record_request(provider, model, status, duration)
RecordRequest(provider, model, status, duration) ==
    /\ returned.n < MaxMetricsCalls
    /\ model_metrics' = record_request(model_metrics, provider, model, status, duration)
    /\ Returns("record_request", provider, None, NoValue)
    /\ UNCHANGED <<gateway, environ, manager, session_store>>

\* model_metrics.get_summary()
GetSummary ==
    /\ returned.n < MaxMetricsCalls
    /\ Returns("get_summary", None, None, get_summary(model_metrics, now))
    /\ UNCHANGED <<gateway, environ, manager, session_store, model_metrics>>

NextMetrics ==
    \/ \E provider \in DOMAIN ProviderModels, status \in Statuses, duration \in Durations :
         \E model \in ProviderModels[provider] :
            RecordRequest(provider, model, status, duration)
    \/ GetSummary

InitMetrics == InitDefaultGateway /\ InitComponents

SpecMetrics == InitMetrics /\ [][NextMetrics]_vars

\* ------------------------------------------------------------------------
\* Properties
\* ------------------------------------------------------------------------

\* the call of p ends in this step
EndsNow(p) == proc[p].pc # "idle" /\ proc'[p].pc = "idle"

\* occurrences of x in seq
Count(seq, x) == Cardinality({i \in DOMAIN seq : seq[i] = x})

\* the two requests agree on the five fields of the documented cache key
SameFive(r1, r2) ==
    /\ r1.query = r2.query
    /\ r1.language = r2.language
    /\ r1.response_format = r2.response_format
    /\ r1.priority = r2.priority
    /\ r1.context = r2.context

\* the response says that a failover took place
FailoverRecorded(response) ==
    \/ Get(response.metadata, "fallback_enabled", FALSE)
    \/ Get(Get(response.metadata, "platform_metadata", <<>>), "fallback_enabled", FALSE)

\* calls in progress whose request has the given priority
InProgress(priority) ==
    {p \in Procs : proc[p].pc # "idle" /\ proc[p].request.priority = priority}

\* C1: a response that a fallback platform produced names that platform as
\* platform_used, and its metadata records the failover.
C1_FailoverCorrectness ==
    (/\ last.status = "200"
     /\ Get(last.platform_result, "fallback_enabled", FALSE)
     /\ "error" \notin DOMAIN last.platform_result)
    => /\ last.response.platform_used = last.platform_result.platform
       /\ FailoverRecorded(last.response)

\* C2: with failover enabled, a call that every adapter failed ends with the
\* all-platforms-unavailable error after each registered adapter was called
\* exactly once.
C2_ExhaustionOnce ==
    [][\A p \in Procs :
         (/\ config.fault_tolerance_enabled
          /\ proc[p].pc = "adapter"
          /\ EndsNow(p)
          /\ last'.status # "200")
         => /\ last'.status = "503:all platforms unavailable"
            /\ \A a \in platform_adapters : Count(proc[p].attempts, a) = 1]_vars

\* C3: the dispatch chain of a request never enters _execute_platform_query
\* for a platform whose own call is still on the chain, so its depth is
\* bounded by the number of adapters and not by the interpreter.
C3_NoReentry ==
    \A p \in Procs :
        /\ \A i, j \in DOMAIN proc[p].stack :
              (/\ i # j
               /\ proc[p].stack[i].fn = "execute"
               /\ proc[p].stack[j].fn = "execute")
              => proc[p].stack[i].platform # proc[p].stack[j].platform
        /\ Len(proc[p].stack) < RecursionLimit

\* C4: a request whose platform_preference names a registered adapter is
\* sent to that adapter first.
C4_PreferenceFirst ==
    \A p \in Procs :
        (/\ proc[p].pc = "adapter"
         /\ proc[p].request.platform_preference \in platform_adapters)
        => /\ proc[p].best_platform = proc[p].request.platform_preference
           /\ proc[p].attempts[1] = proc[p].request.platform_preference

\* C5: a request that passed the rate limiter directly after a call with the
\* same five key fields returned the answer of a platform, within the ttl of
\* that response, is answered from the cache: cache_hit is set, the answer is the
\* same, and no adapter was called.
C5_CacheIdempotence ==
    [][\A p \in Procs :
         (/\ EndsNow(p)
          /\ proc[p].pc \in {"cache", "adapter"}
          /\ \A q \in Procs \ {p} : proc[q].pc = "idle"
          /\ last.status = "200"
          /\ ~Get(last.response.metadata, "error", FALSE)
          /\ proc[p].prev = completed
          /\ SameFive(last.request, proc[p].request)
          /\ now - last.t_done < cache_ttl_seconds)
         => /\ last'.status = "200"
            /\ Get(last'.response, "cache_hit", FALSE)
            /\ last'.response.answer = last.response.answer
            /\ proc[p].attempts = <<>>]_vars

\* C6: for the cache manager in use, the key of a stored entry is the key of
\* exactly the requests that agree with the storing request on the five
\* fields.
C6_CacheKeyFields ==
    \A r1, r2 \in Requests :
        _generate_cache_key(cache_kind, r1) \in DOMAIN cache
        => ((_generate_cache_key(cache_kind, r2) = _generate_cache_key(cache_kind, r1))
            <=> SameFive(r1, r2))

\* C7: a call is answered from the cache only when no more than ttl_seconds
\* have passed since the entry was stored.
C7_HitWithinTTL ==
    [][\A p \in Procs :
         (/\ proc[p].pc = "cache"
          /\ EndsNow(p)
          /\ last'.status = "200")
         => LET entry == cache[_generate_cache_key(cache_kind, proc[p].request)]
            IN  now - entry.stored_at <= entry.ttl_seconds]_vars

\* C8: no more critical requests are in progress at once than the configured
\* limit, and no critical request is suspended in handle_priority.
C8_CriticalFailFast ==
    /\ Cardinality(InProgress(CRITICAL)) <= config.concurrent_request_limit
    /\ \A p \in InProgress(CRITICAL) : proc[p].pc # "qos"

\* C9: a valid critical request that arrives while no critical request is in
\* progress is not turned away by the rate limiter, whatever was received
\* before it in the window.
C9_NoStarvation ==
    [][(/\ received' = received + 1
        /\ completed' = completed + 1
        /\ last'.request.priority = CRITICAL
        /\ InProgress(CRITICAL) = {})
       => last'.status # "429:rate limit"]_vars

\* C10: when no call is in progress, the count of the rate limiter and the
\* priority queues are back at their initial values.
C10_AdmissionReleased ==
    (\A p \in Procs : proc[p].pc = "idle")
    => /\ platform_limits["unified"].current_requests = 0
       /\ \A priority \in QueryPriority : priority_queues[priority] = 0

\* the request whose call begins in this step
ReceivedRequest ==
    IF completed' = completed + 1 THEN last'.request
    ELSE LET p == CHOOSE q \in Procs : proc[q].pc = "idle" /\ proc'[q].pc # "idle"
         IN  proc'[p].request

\* C11: a request for which the cache holds a live response is answered
\* without the rate limiter: its arrival changes no rate-limit counter and
\* it is not rejected for rate limiting.
C11_CacheBeforeLimiter ==
    [][(/\ received' = received + 1
        /\ _validate_query_request(ReceivedRequest)[1]
        /\ get_cached_response(cache_kind, cache, ReceivedRequest, now) # NoResponse)
       => /\ platform_limits' = platform_limits
          /\ ~(completed' = completed + 1 /\ last'.status = "429:rate limit")]_vars

\* C12: a call that validation or the rate limiter rejects ends in the step
\* that receives it, with no call of an adapter begun and with the cache,
\* the performance statistics, the metrics history and the priority queues
\* unchanged; a validation rejection leaves the rate-limit counters
\* unchanged too.
C12_RejectedNoEffect ==
    [][(/\ completed' = completed + 1
        /\ last'.status \in {"400:invalid request", "429:rate limit"})
       => /\ received' = received + 1
          /\ proc' = proc
          /\ cache' = cache
          /\ recent_performance_stats' = recent_performance_stats
          /\ usage_metrics_history' = usage_metrics_history
          /\ priority_queues' = priority_queues
          /\ (last'.status = "400:invalid request" => platform_limits' = platform_limits)]_vars

\* a request was rejected by the rate limiter after a response was cached
C12_Witness ==
    /\ last.status = "429:rate limit"
    /\ DOMAIN cache # {}
    /\ platform_limits["unified"].current_requests > 0

\* C13: every response the cache holds was built from a platform result
\* without error.
C13_CacheOnlySuccess ==
    \A k \in DOMAIN cache : ~Get(cache[k].value.metadata, "error", FALSE)

\* C14: when the adapter call of a request raises an error that is not
\* retryable, the chain stops: the call ends in that step with an error and
\* no further adapter is called.
C14_NonRetryableStops ==
    [][(/\ injected' # injected
        /\ injected'.what \in NonRetryableErrors)
       => LET p == injected'.p
          IN  /\ EndsNow(p)
              /\ last'.request = proc[p].request
              /\ last'.status # "200"]_vars

\* C15: when a call is cancelled while it awaits an adapter, it ends in that
\* step with the cancellation as its outcome: no further adapter is called
\* and the cache, the performance statistics and the metrics history stay as
\* they are.
C15_CancelStops ==
    [][(/\ injected' # injected
        /\ injected'.what = "CancelledError")
       => LET p == injected'.p
          IN  /\ proc[p].pc = "adapter"
              /\ EndsNow(p)
              /\ last'.request = proc[p].request
              /\ last'.status = "CancelledError"
              /\ last'.response = NoResponse
              /\ cache' = cache
              /\ recent_performance_stats' = recent_performance_stats
              /\ usage_metrics_history' = usage_metrics_history]_vars

\* a call that had been admitted and had reached an adapter was cancelled,
\* with failover enabled, and nothing was cached
C15_Witness ==
    /\ last.status = "CancelledError"
    /\ injected.what = "CancelledError"
    /\ config.fault_tolerance_enabled
    /\ priority_queues[last.request.priority] > 0
    /\ DOMAIN cache = {}

\* C17: a failure of the cache store never fails the call.  When the read
\* fails the call goes on as on a miss (decision engine, priority queue,
\* adapter); when the write fails the call returns the response built from
\* the platform result, and the store is as before.
C17_CacheFailureTolerated ==
    [][(/\ injected' # injected
        /\ injected'.what \in {"cache read", "cache write"})
       => LET p == injected'.p
          IN  IF injected'.what = "cache read"
              THEN /\ proc[p].pc = "cache"
                   /\ \/ /\ proc'[p].pc \in {"adapter", "qos"}
                         /\ proc'[p].request = proc[p].request
                         /\ proc'[p].best_platform =
                                select_best_platform(recent_performance_stats,
                                                     proc[p].request)
                      \/ /\ EndsNow(p)
                         /\ select_best_platform(recent_performance_stats,
                                                 proc[p].request) = "UnboundLocalError"
                         /\ last'.status = "UnboundLocalError"
              ELSE /\ EndsNow(p)
                   /\ last'.status = "200"
                   /\ last'.platform_result # NoResult
                   /\ last'.response = _build_unified_response(proc[p].request,
                                                               proc[p].best_platform,
                                                               last'.platform_result)
                   /\ cache' = cache]_vars

\* a call returned the answer of a platform although the store had raised on
\* the write of its response, which is not in the cache
C17_Witness ==
    /\ injected.what = "cache write"
    /\ last.status = "200"
    /\ last.platform_result # NoResult
    /\ "answer" \in DOMAIN last.platform_result
    /\ _generate_cache_key(cache_kind, last.request) \notin DOMAIN cache

\* C18: a response whose metadata has error set carries the query of the
\* request it answers and an answer that is not empty, also when the error
\* text of the platform result is empty or None.
C18_ErrorResponseAnswer ==
    (/\ last.response # NoResponse
     /\ Get(last.response.metadata, "error", FALSE))
    => /\ last.response.query = QueryText(last.request.query)
       /\ last.response.answer # ""

\* a call returned the error response built from a platform result whose
\* error text is empty
C18_Witness ==
    /\ last.status = "200"
    /\ "error" \in DOMAIN last.platform_result
    /\ last.platform_result.error = ""
    /\ Get(last.response.metadata, "error", FALSE)
    /\ "cache_hit" \notin DOMAIN last.response

\* C19: the confidence score of every response returned lies within [0, 1]
\* (0 to 100 hundredths), whatever confidence the platform result reports.
C19_ConfidenceInRange ==
    last.response # NoResponse
    => /\ last.response.confidence_score >= 0
       /\ last.response.confidence_score <= 100

\* C20: validation rejects a request exactly when its query is empty or
\* blank, or is longer than 2000 characters, or its priority or response
\* format is no member of the enumeration, or its priority is critical and
\* its query has a character of ["'<>]; every other request is accepted; a
\* rejection changes nothing but the call that ends.
C20_ValidationExact ==
    [][received' = received + 1
       => LET r == ReceivedRequest
              rejected == completed' = completed + 1
                          /\ last'.status = "400:invalid request"
              listed == \/ QueryText(r.query) = ""
                        \/ \A i \in DOMAIN r.query : r.query[i] \in BlankWords
                        \/ Len(QueryText(r.query)) > 2000
                        \/ r.priority \notin QueryPriority
                        \/ r.response_format \notin ResponseFormat
                        \/ /\ r.priority = CRITICAL
                           /\ \E i \in DOMAIN r.query : r.query[i] \in RiskWords
          IN  /\ rejected <=> listed
              /\ rejected => /\ proc' = proc
                             /\ platform_limits' = platform_limits
                             /\ cache' = cache
                             /\ priority_queues' = priority_queues]_vars

\* C21: while no performance metrics are recorded, the decision engine
\* routes the knowledge query of main() to ragflow.
C21_KnowledgeToRagflow ==
    \A p \in Procs :
        (/\ proc[p].request = knowledge_query
         /\ proc[p].pc = "adapter"
         /\ DOMAIN recent_performance_stats = {})
        => proc[p].best_platform = "ragflow"

RECURSIVE RankFrom(_, _)
\* the keys in descending order of their scores, equal scores in the order
\* of keys
RankFrom(keys, scores) ==
    IF keys = <<>> THEN <<>>
    ELSE LET best == MaxKey(keys, scores, 2, keys[1])
         IN  <<best>> \o RankFrom(SelectSeq(keys, LAMBDA k : k # best), scores)

\* the platforms in descending order of the scores select_best_platform
\* computes for a request
Ranking(stats, query_request) ==
    RankFrom(platform_order,
             [platform \in Range(platform_order) |->
                 _calculate_platform_score(stats, platform,
                     _analyze_query_intent(query_request.query),
                     _determine_performance_requirements(query_request.priority),
                     query_request)])

\* C23: the adapters called for a request are called in descending order of
\* their scores for it: the i-th call is of the platform of rank i (while no
\* metrics are recorded the scores are those of the selection).
C23_FailoverByRank ==
    \A p \in Procs :
        (/\ proc[p].pc = "adapter"
         /\ DOMAIN recent_performance_stats = {})
        => LET ranking == Ranking(recent_performance_stats, proc[p].request)
           IN  \A i \in DOMAIN proc[p].attempts :
                   /\ i <= Len(ranking)
                   /\ proc[p].attempts[i] = ranking[i]

\* C26: for every platform and the priority of every request in progress,
\* with the metrics recorded so far or the defaults,
\* _get_performance_match_score is at most 1.0 (Scale).
C26_PerformanceFitCapped ==
    \A p \in Procs, platform \in platform_adapters :
        proc[p].pc # "idle"
        => _get_performance_match_score(
               recent_performance_stats, platform,
               _determine_performance_requirements(proc[p].request.priority)) <= Scale

\* C27: when a fallback platform answered a call, the sample recorded for
\* the call is stored under that platform, and the entry of the platform
\* selected first stays as it was.
C27_SampleOfAnsweringPlatform ==
    [][\A p \in Procs :
         (/\ proc[p].pc = "adapter"
          /\ EndsNow(p)
          /\ last'.status = "200"
          /\ "error" \notin DOMAIN last'.platform_result
          /\ last'.platform_result.platform # proc[p].best_platform)
         => LET answering == last'.platform_result.platform
                selected == proc[p].best_platform
            IN  /\ answering \in DOMAIN recent_performance_stats'
                /\ recent_performance_stats'[answering] =
                       performance_metrics(answering, last'.platform_result, now)
                /\ Get(recent_performance_stats', selected, NoResult) =
                       Get(recent_performance_stats, selected, NoResult)]_vars

\* C24: the history of a platform is a bounded buffer of its latest samples:
\* it never holds more than 100 samples, and each update_performance_metrics
\* appends the new sample at the end, keeps the samples before it in their
\* order, drops the oldest one when the buffer was full, and leaves the
\* histories of the other platforms alone.
C24_HistoryLatestSamples ==
    /\ [](\A k \in DOMAIN usage_metrics_history :
             Len(usage_metrics_history[k]) <= history_limit)
    /\ [][Called("update_performance_metrics") =>
            LET platform == returned'.arg
                old == Get(usage_metrics_history, platform, <<>>)
                new == usage_metrics_history'[platform]
                dropped == Len(old) + 1 - Len(new)
            IN  /\ Len(new) = Min(Len(old) + 1, history_limit)
                /\ new[Len(new)].timestamp = now
                /\ new[Len(new)].platform = platform
                /\ \A i \in 1..(Len(new) - 1) : new[i] = old[i + dropped]
                /\ \A k \in DOMAIN usage_metrics_history \ {platform} :
                       usage_metrics_history'[k] = usage_metrics_history[k]]_vars

\* the history of "dify" is full and its oldest sample has been dropped,
\* after a sample of "ragflow" was recorded as well
C24_Witness ==
    /\ returned.call = "update_performance_metrics"
    /\ "ragflow" \in DOMAIN usage_metrics_history
    /\ Len(usage_metrics_history["ragflow"]) = 1
    /\ "dify" \in DOMAIN usage_metrics_history
    /\ Len(usage_metrics_history["dify"]) = history_limit
    /\ returned.n = history_limit + 2
    /\ usage_metrics_history["dify"][1].timestamp = 2

\* C25: in every entry of the rate limiter the count never exceeds the limit;
\* a call that is allowed adds one to the count of its entry (so the count
\* is the number of requests admitted since the last reset, and at most
\* max_limit of them are admitted between two resets), a call that is
\* refused adds nothing; and an entry is reset (count back to zero, a new
\* window start) only by a call made when the time has reached
\* last_reset + window_seconds.
C25_RateWindow ==
    /\ [](\A k \in DOMAIN platform_limits :
             platform_limits[k].current_requests <= platform_limits[k].max_limit)
    /\ [][\A k \in DOMAIN platform_limits :
            LET old == platform_limits[k]
                new == platform_limits'[k]
                is_reset == new.last_reset # old.last_reset
                admitted == /\ Called("is_request_allowed")
                            /\ returned'.arg = k
                            /\ returned'.value.allowed
                since == IF is_reset THEN 0 ELSE old.current_requests
            IN  /\ new.current_requests = since + (IF admitted THEN 1 ELSE 0)
                /\ is_reset => /\ now >= old.last_reset + old.window_seconds
                               /\ new.last_reset = now
                /\ new.current_requests < old.current_requests => is_reset]_vars

\* an entry with the limit 1 was reset by a call at the very second its
\* window ended, admitted that call, and refuses the next one half a window
\* later
C25_Witness ==
    /\ returned.call = "is_request_allowed"
    /\ ~returned.value.allowed
    /\ platform_limits[returned.arg].max_limit = 1
    /\ platform_limits[returned.arg].current_requests = 1
    /\ platform_limits[returned.arg].last_reset = window_seconds
    /\ now = window_seconds + window_seconds \div 2

\* the API key of provider p is set in the environment
KeySet(p) == ~Falsy(getenv(environ, config_mapping[p].api_key, None))

\* C22: after switch_provider(p) for a supported provider p whose API key is
\* set, the call has returned, the provider of the manager is p, and its
\* config holds the API key and the model name of p.
C22_SwitchTakesEffect ==
    (/\ returned.call = "switch_provider"
     /\ returned.arg \in DOMAIN _adapters
     /\ KeySet(returned.arg))
    => /\ returned.raised = None
       /\ manager.provider = returned.arg
       /\ manager.config.api_key = environ[config_mapping[returned.arg].api_key]
       /\ manager.config.model_name = config_mapping[returned.arg].model_name

\* a manager that was switched before is switched to "zhipu"
C22_Witness ==
    /\ returned.call = "switch_provider"
    /\ returned.n = 3
    /\ returned.arg = "zhipu"
    /\ returned.raised = None
    /\ manager.provider = "zhipu"
    /\ manager.adapter.class = "ZhipuAdapter"

\* C28: the provider, the config and the adapter of a manager belong to one
\* provider, and a switch_provider that raises leaves the manager as it was.
C28_ManagerConsistent ==
    /\ [](manager # NoManager =>
            /\ manager.provider \in DOMAIN _adapters
            /\ manager.config.model_name = config_mapping[manager.provider].model_name
            /\ manager.config.api_key = environ[config_mapping[manager.provider].api_key]
            /\ provider_name(manager.adapter) = manager.provider
            /\ manager.adapter.config = manager.config)
    /\ [][(Called("switch_provider") /\ returned'.raised # None) => manager' = manager]_vars

RECURSIVE SumOver(_, _)
SumOver(keys, f) ==
    IF keys = {} THEN 0
    ELSE LET k == CHOOSE x \in keys : TRUE IN f[k] + SumOver(keys \ {k}, f)

\* the keys recorded for a provider
KeysOf(provider) == {key \in DOMAIN model_metrics.requests : SplitFirst(key) = provider}

\* C30: in the summary, total_requests is the sum of the requests reported
\* per provider, and the requests and the success_rate of each provider are
\* those of all the requests recorded for it, whatever their model.
C30_SummaryCoversProviders ==
    returned.call = "get_summary" =>
        LET summary == returned.value
            requests == [p \in DOMAIN summary.providers |-> summary.providers[p].requests]
            totals == [key \in DOMAIN model_metrics.requests |->
                          model_metrics.requests[key].total]
            successes == [key \in DOMAIN model_metrics.requests |->
                             model_metrics.requests[key].success]
        IN  /\ summary.total_requests = SumOver(DOMAIN requests, requests)
            /\ \A p \in DOMAIN summary.providers :
                   /\ summary.providers[p].requests = SumOver(KeysOf(p), totals)
                   /\ summary.providers[p].success_rate =
                          (SumOver(KeysOf(p), successes) * Scale)
                              \div SumOver(KeysOf(p), totals)

====
